---- MODULE Spec2Model ----
(***************************************************************************)
(* CareerCompass (src/app.py): the /generate request handler, the upload   *)
(* text extractor, the completion call and the best-effort side effects.   *)
(*                                                                         *)
(* Text is a sequence of characters over a small alphabet, so that strip,  *)
(* lower, join and the prompt template are computed as the code computes   *)
(* them.  A request is a process that walks through generate_report; the   *)
(* uploads folder, the reports folder, the mailing-list CSV and the sheet  *)
(* are shared by all requests.                                             *)
(***************************************************************************)
EXTENDS Integers, Sequences, FiniteSets, TLC

VARIABLES
    form,         \* request.form / request.files of each request
    pc,           \* position of each request inside generate_report
    uploads,      \* UPLOAD_FOLDER: file name -> file on disk
    text,         \* local `text` of extract_text_from_upload
    raised,       \* exception in flight inside extract_text_from_upload
    extraction,   \* extract_text_from_upload: "pending", "returned" or "raised"
    file_text,    \* generate_report: file_text
    combined_cv,  \* generate_report: combined_cv
    report_html,  \* generate_report: report_html
    net,          \* network calls made by each request, in order
    failed,       \* side effects of each request whose exception was logged
    reports,      \* REPORTS_FOLDER: report ids whose PDF exists
    email_list,   \* EMAIL_LIST_FILE: whether the CSV exists, and its rows
    sheet,        \* rows of the Google sheet
    clock,        \* datetime.utcnow(), as a logical clock
    response,     \* what the user receives
    existing,     \* sync_email_to_sheet: the local set `existing` of each call
    file_exists,  \* save_email_to_list: the local `file_exists` of each call
    batch,        \* sync_emails.py: position and locals of the script
    batch_sheet   \* rows of the sheet sync_emails.py uploads to

vars == << form, pc, uploads, text, raised, extraction, file_text, combined_cv,
           report_html, net, failed, reports, email_list, sheet, clock,
           response, existing, file_exists, batch, batch_sheet >>

\* the locals of the split side-effect steps and the state of the batch script
aux == << existing, file_exists, batch, batch_sheet >>

(***************************************************************************)
(* Bounds of the model.                                                    *)
(***************************************************************************)
MaxTextLen == 1
MaxFileLen == 2
MaxRequests == 2
MaxCsvRows == 3
MaxRuns == 2

(***************************************************************************)
(* Characters and strings.                                                 *)
(***************************************************************************)
NL == "\n"
BadByte == "#"
TextAlphabet == {"a", " "}
FileAlphabet == {"a", " ", BadByte}

SeqsUpTo(S, n) == UNION {[1..k -> S] : k \in 0..n}

\* str.isspace for the characters of the model
IsSpace(c) == c \in {" ", NL}

RECURSIVE LStrip(_)
LStrip(s) == IF s = <<>> THEN s
             ELSE IF IsSpace(Head(s)) THEN LStrip(Tail(s)) ELSE s

RECURSIVE RStrip(_)
RStrip(s) == IF s = <<>> THEN s
             ELSE IF IsSpace(s[Len(s)]) THEN RStrip(SubSeq(s, 1, Len(s) - 1))
             ELSE s

\* str.strip()
Strip(s) == RStrip(LStrip(s))

LowerChar(c) == IF c = "A" THEN "a" ELSE c

\* str.lower()
Lower(s) == [i \in DOMAIN s |-> LowerChar(s[i])]

\* sep.join(parts)
RECURSIVE Join(_, _)
Join(sep, parts) ==
    IF parts = <<>> THEN <<>>
    ELSE IF Len(parts) = 1 THEN parts[1]
    ELSE parts[1] \o sep \o Join(sep, Tail(parts))

\* open(..., encoding="utf-8", errors="ignore").read(): undecodable bytes are dropped
Decode(bytes) == SelectSeq(bytes, LAMBDA b : b # BadByte)

(***************************************************************************)
(* Uploads.                                                                *)
(***************************************************************************)
Filenames == {"cv.txt", "cv.docx", "CV.PDF", "cv.exe"}

\* Path(filename).suffix
Suffix(filename) ==
    CASE filename = "cv.txt"  -> ".txt"
      [] filename = "cv.docx" -> ".docx"
      [] filename = "CV.PDF"  -> ".PDF"
      [] filename = "cv.exe"  -> ".exe"
      [] OTHER                -> ""

LowerExt(suffix) == IF suffix = ".PDF" THEN ".pdf" ELSE suffix

\* ext = Path(filename).suffix.lower()
Ext(filename) == LowerExt(Suffix(filename))

Absent == [exists |-> FALSE, bytes |-> <<>>, corrupt |-> FALSE]
OnDisk(bytes, corrupt) == [exists |-> TRUE, bytes |-> bytes, corrupt |-> corrupt]

\* request.files.get("cv_file"): None, an empty file field, or a file
NoUpload == [present |-> FALSE, filename |-> "", bytes |-> <<>>, corrupt |-> FALSE]
EmptyField == [present |-> TRUE, filename |-> "", bytes |-> <<>>, corrupt |-> FALSE]
Upload(filename, bytes, corrupt) ==
    [present |-> TRUE, filename |-> filename, bytes |-> bytes, corrupt |-> corrupt]

\* a .docx/.pdf container may be corrupt; .txt and other files have no container
HasContainer(filename) == Ext(filename) \in {".docx", ".pdf"}

FileUploads ==
    { Upload(fn, b, c) : fn \in Filenames, b \in SeqsUpTo(FileAlphabet, MaxFileLen),
                         c \in BOOLEAN }

UploadInputs ==
    {NoUpload, EmptyField} \cup
    { u \in FileUploads : u.corrupt => HasContainer(u.filename) }

EmailInputs == { <<>>, <<"a">>, <<" ", "A">> }

FormInputs ==
    [ email : EmailInputs,
      cv_text : SeqsUpTo(TextAlphabet, MaxTextLen),
      cv_file : UploadInputs ]

(***************************************************************************)
(* Documents.  A completion is opaque text; the endpoint may return a      *)
(* full report, a report with a heading missing, or empty content.         *)
(***************************************************************************)
FULL_REPORT == "<div class='section'>full report</div>"
PARTIAL_REPORT == "<div class='section'>report, one heading missing</div>"
CompletionContents == {FULL_REPORT, PARTIAL_REPORT, ""}

\* generate_report_html, line 380
NO_CV_HTML == "<div class='section'><h2>Error</h2><p>No CV text provided.</p></div>"
\* generate_report_html, lines 397-410
FALLBACK_HTML == "<div class='section'><h2>Temporary issue generating your report</h2></div>"

\* what client.chat.completions.create(...) and response.choices[0].message.content do
CompletionFailures ==
    {"timeout", "transport_error", "http_error", "empty_body", "malformed_body"}
CompletionOutcomes ==
    { [kind |-> "ok", content |-> c] : c \in CompletionContents } \cup
    { [kind |-> k, content |-> ""] : k \in CompletionFailures }

\* build_user_prompt: the fixed instructions, the CV text, a closing newline
PromptHead == << "<instructions>", NL, NL >>
PromptTail == << NL >>
build_user_prompt(cv_text) == PromptHead \o cv_text \o PromptTail

\* the {cv_text} slot of a user message
CandidatePortion(prompt) ==
    SubSeq(prompt, Len(PromptHead) + 1, Len(prompt) - Len(PromptTail))

(***************************************************************************)
(* Initial states.                                                         *)
(***************************************************************************)
\* sync_emails.py not started
BatchIdle == [pc |-> "idle", existing |-> {}, new_rows |-> <<>>, i |-> 0,
              run |-> 0, uploaded |-> <<>>]

NoResponse == [kind |-> "none", flash |-> "", report_html |-> "", download_url |-> 0]

InitOf(R, inputs) ==
    /\ form \in [R -> inputs]
    /\ pc = [r \in R |-> "extract"]
    /\ uploads = [fn \in Filenames |-> Absent]
    /\ text = [r \in R |-> <<>>]
    /\ raised = [r \in R |-> "none"]
    /\ extraction = [r \in R |-> "pending"]
    /\ file_text = [r \in R |-> <<>>]
    /\ combined_cv = [r \in R |-> <<>>]
    /\ report_html = [r \in R |-> ""]
    /\ net = [r \in R |-> <<>>]
    /\ failed = [r \in R |-> {}]
    /\ reports = {}
    /\ email_list = [exists |-> FALSE, rows |-> <<>>]
    /\ sheet = <<>>
    /\ clock = 0
    /\ response = [r \in R |-> NoResponse]
    /\ existing = [r \in R |-> {}]
    /\ file_exists = [r \in R |-> FALSE]
    /\ batch = BatchIdle
    /\ batch_sheet = <<>>

\* one /generate request, any form
Init == InitOf({1}, FormInputs)

Requests == DOMAIN pc

Error500 == [kind |-> "error500", flash |-> "", report_html |-> "", download_url |-> 0]

\* an exception leaves generate_report: Flask answers 500
Abort(r) ==
    /\ response' = [response EXCEPT ![r] = Error500]
    /\ pc' = [pc EXCEPT ![r] = "done"]

(***************************************************************************)
(* extract_text_from_upload (lines 328-369), one action per file-system    *)
(* step: the early return, save, open/parse, unlink.                       *)
(***************************************************************************)
\* temp_path = UPLOAD_FOLDER / filename
temp_path(r) == form[r].cv_file.filename

\* line 335: if not file_storage or file_storage.filename == ""
NoFileGiven(f) == ~f.present \/ f.filename = ""

\* lines 335-341
ExtractBegin(r) ==
    /\ pc[r] = "extract"
    /\ IF NoFileGiven(form[r].cv_file)
       THEN /\ file_text' = [file_text EXCEPT ![r] = <<>>]
            /\ extraction' = [extraction EXCEPT ![r] = "returned"]
            /\ pc' = [pc EXCEPT ![r] = "combine"]
       ELSE /\ pc' = [pc EXCEPT ![r] = "save"]
            /\ UNCHANGED << file_text, extraction >>
    /\ UNCHANGED << aux, form, uploads, text, raised, combined_cv, report_html, net,
                    failed, reports, email_list, sheet, clock, response >>

\* line 342: file_storage.save(temp_path) succeeds
SaveOk(r) ==
    /\ pc[r] = "save"
    /\ uploads' = [uploads EXCEPT ![temp_path(r)] =
                      OnDisk(form[r].cv_file.bytes, form[r].cv_file.corrupt)]
    /\ text' = [text EXCEPT ![r] = <<>>]
    /\ pc' = [pc EXCEPT ![r] = "parse"]
    /\ UNCHANGED << aux, form, raised, extraction, file_text, combined_cv, report_html,
                    net, failed, reports, email_list, sheet, clock, response >>

\* line 342: save raises, before the file is created or after a partial write;
\* the call is outside the try block, so nothing unlinks what was written
SaveFails(r) ==
    /\ pc[r] = "save"
    /\ \/ UNCHANGED uploads
       \/ \E n \in 0..(Len(form[r].cv_file.bytes) - 1) :
             uploads' = [uploads EXCEPT ![temp_path(r)] =
                            OnDisk(SubSeq(form[r].cv_file.bytes, 1, n),
                                   HasContainer(temp_path(r)))]
    /\ extraction' = [extraction EXCEPT ![r] = "raised"]
    /\ Abort(r)
    /\ UNCHANGED << aux, form, text, raised, file_text, combined_cv, report_html, net,
                    failed, reports, email_list, sheet, clock >>

\* lines 347-362: the text the branch for `ext` reads from the file at temp_path
\* ("raise" when open() or the parser raises)
ReadResult(ext, f) ==
    IF ext = ".txt"
    THEN IF f.exists THEN [raise |-> "none", text |-> Decode(f.bytes)]
         ELSE [raise |-> "FileNotFoundError", text |-> <<>>]
    ELSE IF ext \in {".docx", ".pdf"}
    THEN IF ~f.exists THEN [raise |-> "FileNotFoundError", text |-> <<>>]
         ELSE IF f.corrupt THEN [raise |-> "ParseError", text |-> <<>>]
         ELSE [raise |-> "none", text |-> f.bytes]
    ELSE [raise |-> "none", text |-> <<>>]

\* open() and the parsers may also fail on a file that is there (I/O error)
ReadOutcomes(ext, f) ==
    {ReadResult(ext, f)} \cup
    (IF ext \in {".txt", ".docx", ".pdf"}
     THEN {[raise |-> "OSError", text |-> <<>>]} ELSE {})

\* lines 344-362: text = "" and the try block
Parse(r) ==
    /\ pc[r] = "parse"
    /\ \E res \in ReadOutcomes(Ext(temp_path(r)), uploads[temp_path(r)]) :
          /\ text' = [text EXCEPT ![r] = res.text]
          /\ raised' = [raised EXCEPT ![r] = res.raise]
    /\ pc' = [pc EXCEPT ![r] = "unlink"]
    /\ UNCHANGED << aux, form, uploads, extraction, file_text, combined_cv, report_html,
                    net, failed, reports, email_list, sheet, clock, response >>

\* lines 363-369: finally: temp_path.unlink(), its exception swallowed; then
\* the pending exception propagates, or text.strip() is returned
ExtractEnd(r) ==
    IF raised[r] # "none"
    THEN /\ extraction' = [extraction EXCEPT ![r] = "raised"]
         /\ Abort(r)
         /\ UNCHANGED file_text
    ELSE /\ extraction' = [extraction EXCEPT ![r] = "returned"]
         /\ file_text' = [file_text EXCEPT ![r] = Strip(text[r])]
         /\ pc' = [pc EXCEPT ![r] = "combine"]
         /\ UNCHANGED response

\* line 365: unlink removes the file
UnlinkOk(r) ==
    /\ pc[r] = "unlink"
    /\ uploads[temp_path(r)].exists
    /\ uploads' = [uploads EXCEPT ![temp_path(r)] = Absent]
    /\ ExtractEnd(r)
    /\ UNCHANGED << aux, form, text, raised, combined_cv, report_html, net,
                    failed, reports, email_list, sheet, clock >>

\* lines 364-367: unlink raises (the file is gone, or may not be removed): pass
UnlinkFails(r) ==
    /\ pc[r] = "unlink"
    /\ ExtractEnd(r)
    /\ UNCHANGED << aux, form, uploads, text, raised, combined_cv, report_html, net,
                    failed, reports, email_list, sheet, clock >>

(***************************************************************************)
(* generate_report (lines 527-586).                                        *)
(***************************************************************************)
\* lines 534-536: "\n\n".join(part for part in [text_box, file_text] if part).strip()
CombineCv(text_box, ftext) ==
    Strip(Join(<< NL, NL >>, SelectSeq(<< text_box, ftext >>, LAMBDA p : p # <<>>)))

\* the emptiness check left out
NoUsableText_unchecked(cv) == FALSE

\* line 538: if not combined_cv
NoUsableText(cv) == cv = <<>>

FlashRedirect ==
    [kind |-> "redirect", flash |-> "Please paste your CV or upload a valid file.",
     report_html |-> "", download_url |-> 0]

\* lines 529-540
Combine(r) ==
    /\ pc[r] = "combine"
    /\ LET cv == CombineCv(Strip(form[r].cv_text), file_text[r]) IN
          /\ combined_cv' = [combined_cv EXCEPT ![r] = cv]
          /\ IF NoUsableText(cv)
             THEN /\ response' = [response EXCEPT ![r] = FlashRedirect]
                  /\ pc' = [pc EXCEPT ![r] = "done"]
             ELSE /\ pc' = [pc EXCEPT ![r] = "generate"]
                  /\ UNCHANGED response
    /\ UNCHANGED << aux, form, uploads, text, raised, extraction, file_text, report_html, net,
                    failed, reports, email_list, sheet, clock >>

\* line 379: if not cv_text or not cv_text.strip()
NoCvText(cv_text) == cv_text = <<>> \/ Strip(cv_text) = <<>>

\* an except clause that misses the timeout
CompletionHandler_timeout_escapes(kind) ==
    IF kind = "ok" THEN "return_content"
    ELSE IF kind = "timeout" THEN "propagate" ELSE "return_fallback"

\* lines 382-410: what the try/except does with an outcome of the completion call
CompletionHandler(kind) ==
    IF kind = "ok" THEN "return_content" ELSE "return_fallback"

\* a loop that calls the generator again until the report is complete
AfterGenerate_retry_loop(doc) == IF doc = FULL_REPORT THEN "pdf" ELSE "generate"

\* line 543 onwards: where generate_report goes once generate_report_html returned
AfterGenerate(doc) == "pdf"

\* one network call: the service, what was sent, how it ended, what came back
Call(svc, arg, outcome, reply) ==
    [svc |-> svc, arg |-> arg, outcome |-> outcome, reply |-> reply]

\* line 543 and generate_report_html (lines 373-410)
Generate(r) ==
    /\ pc[r] = "generate"
    /\ IF NoCvText(combined_cv[r])
       THEN /\ report_html' = [report_html EXCEPT ![r] = NO_CV_HTML]
            /\ pc' = [pc EXCEPT ![r] = AfterGenerate(NO_CV_HTML)]
            /\ UNCHANGED << net, response >>
       ELSE \E o \in CompletionOutcomes :
            /\ net' = [net EXCEPT ![r] =
                  Append(@, Call("completion", build_user_prompt(combined_cv[r]), o.kind, o.content))]
            /\ LET h == CompletionHandler(o.kind)
                   doc == IF h = "return_content" THEN o.content ELSE FALLBACK_HTML
               IN  IF h = "propagate"
                   THEN /\ Abort(r)
                        /\ UNCHANGED report_html
                   ELSE /\ report_html' = [report_html EXCEPT ![r] = doc]
                        /\ pc' = [pc EXCEPT ![r] = AfterGenerate(doc)]
                        /\ UNCHANGED response
    /\ UNCHANGED << aux, form, uploads, text, raised, extraction, file_text, combined_cv,
                    failed, reports, email_list, sheet, clock >>

\* the sheet sync called outside a try/except
Wrapped_sheet_bare(step) == step \in {"pdf", "log", "mail"}

\* lines 557-576: is an exception of this step caught (and logged) by a try/except?
Wrapped(step) == step \in {"pdf", "log", "sheet", "mail"}

\* a step raised: log it and go on, or let it leave generate_report
Raise(r, step, next) ==
    IF Wrapped(step)
    THEN /\ failed' = [failed EXCEPT ![r] = @ \cup {step}]
         /\ pc' = [pc EXCEPT ![r] = next]
         /\ UNCHANGED response
    ELSE /\ Abort(r)
         /\ UNCHANGED failed

\* lines 546-560: report_id = uuid4(); create_pdf_from_html writes the PDF, or raises
RenderPdf(r) ==
    /\ pc[r] = "pdf"
    /\ \/ /\ reports' = reports \cup {r}
          /\ pc' = [pc EXCEPT ![r] = "save_email"]
          /\ UNCHANGED << failed, response >>
       \/ /\ Raise(r, "pdf", "save_email")
          /\ UNCHANGED reports
    /\ UNCHANGED << aux, form, uploads, text, raised, extraction, file_text, combined_cv,
                    report_html, net, email_list, sheet, clock >>

(***************************************************************************)
(* The side effects (lines 562-576), each in its own try/except.           *)
(***************************************************************************)
HeaderRow == [kind |-> "header", email |-> <<>>, ts |-> 0]
Record(email, ts) == [kind |-> "record", email |-> email, ts |-> ts]

\* lines 418 and 438: (email or "").strip().lower()
NormalizeEmail(email) == Lower(Strip(email))

\* lines 422-428: the rows of the CSV after one append
AppendedRows(log, email, ts) ==
    (IF log.exists THEN log.rows ELSE << HeaderRow >>) \o << Record(email, ts) >>

\* lines 563-566 and save_email_to_list (lines 414-428)
SaveEmail(r) ==
    /\ pc[r] = "save_email"
    /\ LET email == NormalizeEmail(form[r].email) IN
       IF email = <<>>
       THEN /\ pc' = [pc EXCEPT ![r] = "sync_sheet"]
            /\ UNCHANGED << email_list, clock, failed, response >>
       ELSE \/ /\ email_list' = [exists |-> TRUE,
                                 rows |-> AppendedRows(email_list, email, clock)]
               /\ clock' = clock + 1
               /\ pc' = [pc EXCEPT ![r] = "sync_sheet"]
               /\ UNCHANGED << failed, response >>
            \/ \* open() raises: nothing is written
               /\ Raise(r, "log", "sync_sheet")
               /\ UNCHANGED << email_list, clock >>
            \/ \* a write raises after open(mode="a") created the file
               /\ Raise(r, "log", "sync_sheet")
               /\ email_list' = [email_list EXCEPT !.exists = TRUE]
               /\ UNCHANGED clock
    /\ UNCHANGED << aux, form, uploads, text, raised, extraction, file_text, combined_cv,
                    report_html, net, reports, sheet >>

\* GOOGLE_SERVICE_JSON and the gspread import, lines 442-458
SheetConfigs == {"unset", "no_gspread", "bad_json", "ok"}

\* lines 470-475: the normalized, non-empty addresses of the sheet
ExistingEmails(rows) ==
    { NormalizeEmail(rows[i].email) : i \in DOMAIN rows } \ { <<>> }

\* lines 568-571 and sync_email_to_sheet (lines 432-479)
SyncSheet(r) ==
    /\ pc[r] = "sync_sheet"
    /\ LET email == NormalizeEmail(form[r].email) IN
       \E cfg \in SheetConfigs :
       IF email = <<>> \/ cfg # "ok"
       THEN /\ pc' = [pc EXCEPT ![r] = "send_email"]
            /\ UNCHANGED << sheet, clock, net, failed, response >>
       ELSE \/ \* authorize, open or get_all_records raises
               /\ net' = [net EXCEPT ![r] = Append(@, Call("sheet", email, "error", ""))]
               /\ Raise(r, "sheet", "send_email")
               /\ UNCHANGED << sheet, clock >>
            \/ /\ email \in ExistingEmails(sheet)
               /\ net' = [net EXCEPT ![r] = Append(@, Call("sheet", email, "present", ""))]
               /\ pc' = [pc EXCEPT ![r] = "send_email"]
               /\ UNCHANGED << sheet, clock, failed, response >>
            \/ /\ email \notin ExistingEmails(sheet)
               /\ net' = [net EXCEPT ![r] = Append(@, Call("sheet", email, "appended", ""))]
               /\ sheet' = Append(sheet, Record(email, clock))
               /\ clock' = clock + 1
               /\ pc' = [pc EXCEPT ![r] = "send_email"]
               /\ UNCHANGED << failed, response >>
    /\ UNCHANGED << aux, form, uploads, text, raised, extraction, file_text, combined_cv,
                    report_html, reports, email_list >>

\* lines 573-576 and send_report_email (lines 483-519)
SendEmail(r) ==
    /\ pc[r] = "send_email"
    /\ LET recipient == Strip(form[r].email) IN
       IF recipient = <<>> \/ r \notin reports
       THEN /\ pc' = [pc EXCEPT ![r] = "respond"]
            /\ UNCHANGED << net, failed, response >>
       ELSE \/ \* building the message or reading the PDF raises
               /\ Raise(r, "mail", "respond")
               /\ UNCHANGED net
            \/ \* mail.send: sent, or its exception is caught at line 518
               \E o \in {"sent", "error"} :
               /\ net' = [net EXCEPT ![r] = Append(@, Call("smtp", recipient, o, ""))]
               /\ pc' = [pc EXCEPT ![r] = "respond"]
               /\ UNCHANGED << failed, response >>
    /\ UNCHANGED << aux, form, uploads, text, raised, extraction, file_text, combined_cv,
                    report_html, reports, email_list, sheet, clock >>

\* lines 579-586: the report page
Respond(r) ==
    /\ pc[r] = "respond"
    /\ response' = [response EXCEPT ![r] =
          [kind |-> "report", flash |-> "", report_html |-> report_html[r],
           download_url |-> r]]
    /\ pc' = [pc EXCEPT ![r] = "done"]
    /\ UNCHANGED << aux, form, uploads, text, raised, extraction, file_text, combined_cv,
                    report_html, net, failed, reports, email_list, sheet, clock >>

(***************************************************************************)
(* Specifications.                                                         *)
(***************************************************************************)
Next ==
    \/ \E r \in Requests : ExtractBegin(r)
    \/ \E r \in Requests : SaveOk(r)
    \/ \E r \in Requests : SaveFails(r)
    \/ \E r \in Requests : Parse(r)
    \/ \E r \in Requests : UnlinkOk(r)
    \/ \E r \in Requests : UnlinkFails(r)
    \/ \E r \in Requests : Combine(r)
    \/ \E r \in Requests : Generate(r)
    \/ \E r \in Requests : RenderPdf(r)
    \/ \E r \in Requests : SaveEmail(r)
    \/ \E r \in Requests : SyncSheet(r)
    \/ \E r \in Requests : SendEmail(r)
    \/ \E r \in Requests : Respond(r)

Spec == Init /\ [][Next]_vars

\* two concurrent requests, each uploading a short file, nothing pasted
UploadForms ==
    { f \in FormInputs : /\ f.email = <<>>
                         /\ f.cv_text = <<>>
                         /\ f.cv_file.filename \in {"cv.txt", "cv.docx"}
                         /\ Len(f.cv_file.bytes) <= 1 }

InitUpload == InitOf(1..MaxRequests, UploadForms)

\* concurrent calls of extract_text_from_upload
NextUpload ==
    \/ \E r \in Requests : ExtractBegin(r)
    \/ \E r \in Requests : SaveOk(r)
    \/ \E r \in Requests : SaveFails(r)
    \/ \E r \in Requests : Parse(r)
    \/ \E r \in Requests : UnlinkOk(r)
    \/ \E r \in Requests : UnlinkFails(r)

SpecUpload == InitUpload /\ [][NextUpload]_vars

(***************************************************************************)
(* Properties.                                                             *)
(***************************************************************************)
CompletionCalls(r) == { i \in DOMAIN net[r] : net[r][i].svc = "completion" }

\* the first call a request made to the completion endpoint
FirstCompletion(r) ==
    net[r][CHOOSE i \in CompletionCalls(r) : \A j \in CompletionCalls(r) : i <= j]

\* what generate_report_html is to return for that call
GeneratedDocument(r) ==
    IF FirstCompletion(r).outcome = "ok" THEN FirstCompletion(r).reply
    ELSE FALLBACK_HTML

\* nothing pasted (after trimming), and no upload or an upload that yielded no text
EmptyInput(r) ==
    /\ Strip(form[r].cv_text) = <<>>
    /\ extraction[r] = "returned"
    /\ file_text[r] = <<>>

\* C1: a request whose pasted text is empty after trimming and whose upload is
\* absent or yields empty text never gets past the emptiness check: it makes no
\* network call at all and ends with the flash message and the redirect to the
\* form; and no call to the completion endpoint carries empty candidate text.
C1_EmptyInputRejected ==
    \A r \in Requests :
       /\ EmptyInput(r) =>
             /\ net[r] = <<>>
             /\ pc[r] \in {"combine", "done"}
             /\ pc[r] = "done" => response[r] = FlashRedirect
       /\ \A i \in CompletionCalls(r) :
             Strip(CandidatePortion(net[r][i].arg)) # <<>>

\* a whitespace-only paste with an upload that extracts to nothing was turned away
C1_Witness ==
    \E r \in Requests :
       /\ EmptyInput(r)
       /\ form[r].cv_text # <<>>
       /\ ~NoFileGiven(form[r].cv_file)
       /\ form[r].cv_file.bytes # <<>>
       /\ pc[r] = "done"
       /\ response[r] = FlashRedirect

\* C2: whenever generate_report_html called the completion endpoint (its CV text
\* being non-empty), it returned the completion text if the call succeeded and
\* the fixed fallback fragment on every failure (timeout, transport error,
\* non-success response, empty or malformed body); no failure reaches the caller.
C2_FailureGivesFallback ==
    \A r \in Requests :
       CompletionCalls(r) # {} =>
          /\ response[r].kind # "error500"
          /\ pc[r] # "generate"
          /\ report_html[r] = GeneratedDocument(r)
          /\ FirstCompletion(r).outcome # "ok" => report_html[r] = FALLBACK_HTML

\* a completion call timed out and the request answered with the fallback fragment
C2_Witness ==
    \E r \in Requests :
       /\ CompletionCalls(r) # {}
       /\ FirstCompletion(r).outcome = "timeout"
       /\ pc[r] = "done"
       /\ response[r].kind = "report"
       /\ response[r].report_html = FALLBACK_HTML

\* C3: a request that reached report generation answers with the report page
\* whatever the side effects did: an exception in the log append, the sheet sync
\* or the email send is logged, and the report in the response is the document
\* the generator produced.
C3_SideEffectsNeverBlock ==
    \A r \in Requests :
       /\ failed[r] # {} => response[r].kind # "error500"
       /\ (pc[r] = "done" /\ CompletionCalls(r) # {}) =>
             /\ response[r].kind = "report"
             /\ response[r].report_html = GeneratedDocument(r)

\* all three side effects raised and the report page was still returned
C3_Witness ==
    \E r \in Requests :
       /\ pc[r] = "done"
       /\ {"log", "sheet", "mail"} \subseteq failed[r]
       /\ response[r].kind = "report"
       /\ response[r].report_html = FULL_REPORT

\* C4: every finished request answered with the validation message or with a
\* report page carrying a document; none ended in an unhandled fault.
C4_AlwaysAResponse ==
    \A r \in Requests :
       pc[r] = "done" => response[r].kind \in {"redirect", "report"}

\* section 4.4 of the specification: a document with every required heading
StructurallyValid(doc) == doc = FULL_REPORT

\* C5: when the first generated document fails structural validation, exactly
\* one repair call follows the generation call, and the user gets what the
\* repair call returned.
C5_ExactlyOneRepair ==
    \A r \in Requests :
       ( /\ pc[r] = "done"
         /\ CompletionCalls(r) # {}
         /\ FirstCompletion(r).outcome = "ok"
         /\ ~StructurallyValid(FirstCompletion(r).reply) ) =>
             /\ Cardinality(CompletionCalls(r)) = 2
             /\ \E i \in CompletionCalls(r) :
                   /\ net[r][i] # FirstCompletion(r)
                   /\ response[r].report_html = net[r][i].reply

\* C6: a request calls the completion endpoint at most twice.
C6_AtMostTwoCalls ==
    \A r \in Requests : Cardinality(CompletionCalls(r)) <= 2

\* a request got an incomplete report from the endpoint and finished
C6_Witness ==
    \E r \in Requests :
       /\ pc[r] = "done"
       /\ CompletionCalls(r) # {}
       /\ FirstCompletion(r).outcome = "ok"
       /\ FirstCompletion(r).reply = PARTIAL_REPORT
       /\ response[r].kind = "report"

\* C7: once extract_text_from_upload has returned or raised for an upload, no
\* file is left at UPLOAD_FOLDER/<filename>.
C7_NoResidualTempFile ==
    \A r \in Requests :
       (extraction[r] # "pending" /\ ~NoFileGiven(form[r].cv_file)) =>
          ~uploads[temp_path(r)].exists

\* C8: when opening or parsing the upload fails, extract_text_from_upload
\* returns the empty string instead of raising.
C8_ParseFailureIsEmptyText ==
    \A r \in Requests :
       (raised[r] # "none" /\ extraction[r] # "pending") =>
          /\ extraction[r] = "returned"
          /\ file_text[r] = <<>>
          /\ response[r].kind # "error500"

\* sections 3 and 4.2 of the specification: the character bound on the candidate
\* text ("several thousand characters"), scaled to the lengths of the model
MaxCvChars == 2

\* C9: the candidate text embedded in a user message sent to the completion
\* endpoint is never longer than the character bound.
C9_PromptBounded ==
    \A r \in Requests :
       \A i \in CompletionCalls(r) :
          Len(CandidatePortion(net[r][i].arg)) <= MaxCvChars

\* the upload of a request as its own save would leave it on disk
OwnFile(r) == OnDisk(form[r].cv_file.bytes, form[r].cv_file.corrupt)

\* C10: with concurrent requests, what a request's extraction reads (the text,
\* or the exception) is an outcome of reading its own upload.
C10_UploadsIsolated ==
    \A r \in Requests :
       pc[r] = "unlink" =>
          [raise |-> raised[r], text |-> text[r]]
             \in ReadOutcomes(Ext(temp_path(r)), OwnFile(r))

(***************************************************************************)
(* Concurrent calls of sync_email_to_sheet (lines 432-479).  Reading the   *)
(* sheet (get_all_records) and appending to it (append_row) are two        *)
(* requests to the sheet API, so other calls may run between them.         *)
(***************************************************************************)
SheetEmails == EmailInputs \cup { << "b" >> }

\* the requests are past the report: only the address matters
SheetForms == [ email : SheetEmails, cv_text : { << "a" >> }, cv_file : { NoUpload } ]

\* sheets without a duplicate address
InitialSheets ==
    { <<>>, << Record(<< "a" >>, 0) >>, << Record(<< " ", "A" >>, 0) >>,
      << Record(<< "b" >>, 0) >>, << Record(<< "a" >>, 0), Record(<< "b" >>, 0) >> }

\* requests at a given position, over given shared files
InitAt(R, inputs, start, sheets, logs, batch_sheets) ==
    /\ form \in [R -> inputs]
    /\ pc = [r \in R |-> start]
    /\ uploads = [fn \in Filenames |-> Absent]
    /\ text = [r \in R |-> <<>>]
    /\ raised = [r \in R |-> "none"]
    /\ extraction = [r \in R |-> "returned"]
    /\ file_text = [r \in R |-> <<>>]
    /\ combined_cv = [r \in R |-> form[r].cv_text]
    /\ report_html = [r \in R |-> FULL_REPORT]
    /\ net = [r \in R |->
                << Call("completion", build_user_prompt(form[r].cv_text), "ok", FULL_REPORT) >>]
    /\ failed = [r \in R |-> {}]
    /\ reports = R
    /\ email_list \in logs
    /\ sheet \in sheets
    /\ clock = 1
    /\ response = [r \in R |-> NoResponse]
    /\ existing = [r \in R |-> {}]
    /\ file_exists = [r \in R |-> FALSE]
    /\ batch = BatchIdle
    /\ batch_sheet \in batch_sheets

\* line 477: if email not in existing
IsNewEmail(email, seen) == email \notin seen

\* lines 438-475: the early returns, the connection, and the read of the sheet
SheetRead(r) ==
    /\ pc[r] = "sync_sheet"
    /\ LET email == NormalizeEmail(form[r].email) IN
       \E cfg \in SheetConfigs :
       IF email = <<>> \/ cfg # "ok"
       THEN /\ pc' = [pc EXCEPT ![r] = "send_email"]
            /\ UNCHANGED << existing, net, failed, response >>
       ELSE \/ \* authorize, open or get_all_records raises
               /\ net' = [net EXCEPT ![r] = Append(@, Call("sheet", email, "error", ""))]
               /\ Raise(r, "sheet", "send_email")
               /\ UNCHANGED existing
            \/ /\ existing' = [existing EXCEPT ![r] = ExistingEmails(sheet)]
               /\ pc' = [pc EXCEPT ![r] = "sheet_append"]
               /\ UNCHANGED << net, failed, response >>
    /\ UNCHANGED << form, uploads, text, raised, extraction, file_text, combined_cv,
                    report_html, reports, email_list, sheet, clock, file_exists,
                    batch, batch_sheet >>

\* lines 477-479: append the row unless the address was among the rows read
SheetAppend(r) ==
    /\ pc[r] = "sheet_append"
    /\ LET email == NormalizeEmail(form[r].email) IN
       IF IsNewEmail(email, existing[r])
       THEN \/ /\ sheet' = Append(sheet, Record(email, clock))
               /\ clock' = clock + 1
               /\ net' = [net EXCEPT ![r] = Append(@, Call("sheet", email, "appended", ""))]
               /\ pc' = [pc EXCEPT ![r] = "send_email"]
               /\ UNCHANGED << failed, response >>
            \/ \* append_row raises
               /\ net' = [net EXCEPT ![r] = Append(@, Call("sheet", email, "error", ""))]
               /\ Raise(r, "sheet", "send_email")
               /\ UNCHANGED << sheet, clock >>
       ELSE /\ net' = [net EXCEPT ![r] = Append(@, Call("sheet", email, "present", ""))]
            /\ pc' = [pc EXCEPT ![r] = "send_email"]
            /\ UNCHANGED << sheet, clock, failed, response >>
    /\ UNCHANGED << form, uploads, text, raised, extraction, file_text, combined_cv,
                    report_html, reports, email_list, existing, file_exists,
                    batch, batch_sheet >>

InitSheet ==
    InitAt(1..MaxRequests, SheetForms, "sync_sheet", InitialSheets,
           { [exists |-> FALSE, rows |-> <<>>] }, { <<>> })

NextSheet ==
    \/ \E r \in Requests : SheetRead(r)
    \/ \E r \in Requests : SheetAppend(r)

SpecSheet == InitSheet /\ [][NextSheet]_vars

\* C11: the sheet never holds two rows with the same normalized (trimmed,
\* lower-cased) address, whatever the interleaving of sync_email_to_sheet calls.
C11_OneRowPerAddress ==
    \A i, j \in DOMAIN sheet :
       i # j => NormalizeEmail(sheet[i].email) # NormalizeEmail(sheet[j].email)

(***************************************************************************)
(* Concurrent calls of save_email_to_list (lines 414-428): the exists()    *)
(* check, open(mode="a"), and the buffered rows written out at close.      *)
(***************************************************************************)
\* the CSV before the calls: not there yet, or a header and one earlier record
InitialLogs ==
    { [exists |-> FALSE, rows |-> <<>>],
      [exists |-> TRUE, rows |-> << HeaderRow, Record(<< "a" >>, 0) >>] }

\* lines 426-428: the rows one call writes
RowsWritten(had_file, email, ts) ==
    (IF had_file THEN <<>> ELSE << HeaderRow >>) \o << Record(email, ts) >>

\* lines 418-422: normalize, return on an empty address, file_exists = exists()
LogCheck(r) ==
    /\ pc[r] = "save_email"
    /\ IF NormalizeEmail(form[r].email) = <<>>
       THEN /\ pc' = [pc EXCEPT ![r] = "sync_sheet"]
            /\ UNCHANGED file_exists
       ELSE /\ file_exists' = [file_exists EXCEPT ![r] = email_list.exists]
            /\ pc' = [pc EXCEPT ![r] = "log_open"]
    /\ UNCHANGED << form, uploads, text, raised, extraction, file_text, combined_cv,
                    report_html, net, failed, reports, email_list, sheet, clock,
                    response, existing, batch, batch_sheet >>

\* line 424: open(mode="a") creates the file if it is not there, or raises
LogOpen(r) ==
    /\ pc[r] = "log_open"
    /\ \/ /\ email_list' = [email_list EXCEPT !.exists = TRUE]
          /\ pc' = [pc EXCEPT ![r] = "log_write"]
          /\ UNCHANGED << failed, response >>
       \/ /\ Raise(r, "log", "sync_sheet")
          /\ UNCHANGED email_list
    /\ UNCHANGED << form, uploads, text, raised, extraction, file_text, combined_cv,
                    report_html, net, reports, sheet, clock, existing, file_exists,
                    batch, batch_sheet >>

\* lines 425-428: the rows go to the file's buffer and reach the file, in one
\* append, when the with block closes it; or the write raises
LogWrite(r) ==
    /\ pc[r] = "log_write"
    /\ \/ /\ email_list' = [email_list EXCEPT !.rows =
                @ \o RowsWritten(file_exists[r], NormalizeEmail(form[r].email), clock)]
          /\ clock' = clock + 1
          /\ pc' = [pc EXCEPT ![r] = "sync_sheet"]
          /\ UNCHANGED << failed, response >>
       \/ /\ Raise(r, "log", "sync_sheet")
          /\ UNCHANGED << email_list, clock >>
    /\ UNCHANGED << form, uploads, text, raised, extraction, file_text, combined_cv,
                    report_html, net, reports, sheet, existing, file_exists,
                    batch, batch_sheet >>

InitLog ==
    InitAt(1..MaxRequests, SheetForms, "save_email", { <<>> }, InitialLogs, { <<>> })

NextLog ==
    \/ \E r \in Requests : LogCheck(r)
    \/ \E r \in Requests : LogOpen(r)
    \/ \E r \in Requests : LogWrite(r)

SpecLog == InitLog /\ [][NextLog]_vars

\* the calls that wrote their record
WroteRecord(r) ==
    /\ pc[r] = "sync_sheet"
    /\ NormalizeEmail(form[r].email) # <<>>
    /\ "log" \notin failed[r]

\* C12: whatever the interleaving of save_email_to_list calls, a log with rows
\* starts with the header row and holds no other header row, and once all calls
\* have returned it holds one record for each call with a non-empty address
\* that did not raise (and none for a call with an empty address).
C12_LogWellFormed ==
    LET rows == email_list.rows IN
    /\ rows # <<>> =>
          /\ rows[1] = HeaderRow
          /\ \A i \in DOMAIN rows : i > 1 => rows[i] # HeaderRow
    /\ (\A r \in Requests : pc[r] = "sync_sheet") =>
          Cardinality({ i \in DOMAIN rows : rows[i].kind = "record" /\ rows[i].ts > 0 })
             = Cardinality({ r \in Requests : WroteRecord(r) })

(***************************************************************************)
(* GET /download/<report_id> (lines 588-601).                              *)
(***************************************************************************)
\* the status download_report answers with: 404 unless the PDF exists
download_report(report_id) == IF report_id \in reports THEN 200 ELSE 404

\* C13: the download link of every report page that was returned works: the
\* PDF it names exists, so /download/<report_id> does not answer 404.
C13_DownloadLinkWorks ==
    \A r \in Requests :
       response[r].kind = "report" =>
          download_report(response[r].download_url) # 404

(***************************************************************************)
(* sync_emails.py: one run reads the sheet, scans email_list.csv and       *)
(* uploads the rows whose address is new; the script may be run again.     *)
(***************************************************************************)
\* the CSV the script finds: none, one without the header row, or the header
\* and records whose addresses are as they were typed
CsvFiles ==
    { [exists |-> FALSE, rows |-> <<>>],
      [exists |-> TRUE, rows |-> << Record(<< "a" >>, 1), Record(<< "b" >>, 2) >>] } \cup
    { [exists |-> TRUE,
       rows |-> << HeaderRow >> \o [i \in DOMAIN es |-> Record(es[i], i)]] :
         es \in SeqsUpTo(SheetEmails, MaxCsvRows) }

\* line 20: {row["email"].strip().lower() for row in sheet.get_all_records()}
SheetAddresses(rows) == { Lower(Strip(rows[i].email)) : i \in DOMAIN rows }

\* the loop body with existing.add(email) left out
ScanRow_forgets(st, row) ==
    LET email == Lower(Strip(row.email)) IN
    IF email \notin st.existing
    THEN [existing |-> st.existing, new_rows |-> Append(st.new_rows, Record(email, row.ts))]
    ELSE st

\* lines 27-31: one iteration of the loop over the CSV rows
ScanRow(st, row) ==
    LET email == Lower(Strip(row.email)) IN
    IF email \notin st.existing
    THEN [existing |-> st.existing \cup {email},
          new_rows |-> Append(st.new_rows, Record(email, row.ts))]
    ELSE st

\* a run ended: what it uploaded, and whether it ran to its end
EndRun(rows, ok) ==
    [batch EXCEPT !.pc = IF ok THEN "done" ELSE "crashed",
                  !.uploaded = Append(@, [rows |-> rows, ok |-> ok])]

requestVars ==
    << form, pc, uploads, text, raised, extraction, file_text, combined_cv,
       report_html, net, failed, reports, sheet, clock, response, existing,
       file_exists >>

\* lines 10-17: the script is started; authorizing or opening the sheet may raise
BatchStart ==
    /\ batch.pc \in {"idle", "done", "crashed"}
    /\ batch.run < MaxRuns
    /\ \/ batch' = [batch EXCEPT !.pc = "load", !.run = @ + 1,
                                 !.existing = {}, !.new_rows = <<>>, !.i = 0]
       \/ batch' = [EndRun(<<>>, FALSE) EXCEPT !.run = @ + 1]
    /\ UNCHANGED << requestVars, email_list, batch_sheet >>

\* lines 20-25: existing = the addresses of the sheet; open the CSV
BatchLoad ==
    /\ batch.pc = "load"
    /\ IF email_list.exists
       THEN batch' = [batch EXCEPT !.pc = "scan", !.new_rows = <<>>, !.i = 1,
                                   !.existing = SheetAddresses(batch_sheet)]
       ELSE batch' = EndRun(<<>>, FALSE)
    /\ UNCHANGED << requestVars, email_list, batch_sheet >>

\* lines 25-31: csv.DictReader takes the first row as the field names; each
\* further row is scanned, and row["email"] raises if there is no such field
BatchScan ==
    /\ batch.pc = "scan"
    /\ LET rows == email_list.rows IN
       IF batch.i >= Len(rows)
       THEN batch' = [batch EXCEPT !.pc = "upload"]
       ELSE IF rows[1] # HeaderRow
       THEN batch' = EndRun(<<>>, FALSE)
       ELSE LET st == ScanRow([existing |-> batch.existing, new_rows |-> batch.new_rows],
                              rows[batch.i + 1])
            IN  batch' = [batch EXCEPT !.existing = st.existing,
                                       !.new_rows = st.new_rows, !.i = @ + 1]
    /\ UNCHANGED << requestVars, email_list, batch_sheet >>

\* lines 34-38: append_rows(new_rows) if there are any; the call may raise
BatchUpload ==
    /\ batch.pc = "upload"
    /\ IF batch.new_rows # <<>>
       THEN \/ /\ batch_sheet' = batch_sheet \o batch.new_rows
               /\ batch' = EndRun(batch.new_rows, TRUE)
            \/ /\ batch' = EndRun(<<>>, FALSE)
               /\ UNCHANGED batch_sheet
       ELSE /\ batch' = EndRun(<<>>, TRUE)
            /\ UNCHANGED batch_sheet
    /\ UNCHANGED << requestVars, email_list >>

InitBatch == InitAt({}, SheetForms, "done", { <<>> }, CsvFiles, InitialSheets)

NextBatch ==
    \/ BatchStart
    \/ BatchLoad
    \/ BatchScan
    \/ BatchUpload

SpecBatch == InitBatch /\ [][NextBatch]_vars

\* the rows of a sequence of runs, in upload order
RECURSIVE AllUploaded(_)
AllUploaded(runs) ==
    IF runs = <<>> THEN <<>> ELSE runs[1].rows \o AllUploaded(Tail(runs))

\* the sheet as it was before the script ran
SheetBefore ==
    SubSeq(batch_sheet, 1, Len(batch_sheet) - Len(AllUploaded(batch.uploaded)))

\* the data rows of the CSV
CsvRecords == IF email_list.rows = <<>> THEN <<>> ELSE Tail(email_list.rows)

\* C14: over all runs the script uploads an address at most once and never one
\* the sheet already held; a run that reaches its end leaves every address of
\* the CSV on the sheet, uploaded from its first occurrence; and once a run has
\* reached its end, later runs on the same CSV upload nothing.
C14_UploadOncePerAddress ==
    LET up == AllUploaded(batch.uploaded)
        runs == batch.uploaded
    IN
    /\ \A i, j \in DOMAIN up : i # j => up[i].email # up[j].email
    /\ \A i \in DOMAIN up :
          /\ up[i].email \notin SheetAddresses(SheetBefore)
          /\ \E k \in DOMAIN CsvRecords :
                /\ Record(Lower(Strip(CsvRecords[k].email)), CsvRecords[k].ts) = up[i]
                /\ \A m \in 1..(k - 1) :
                      Lower(Strip(CsvRecords[m].email)) # up[i].email
    /\ (\E k \in DOMAIN runs : runs[k].ok) =>
          SheetAddresses(CsvRecords) \subseteq SheetAddresses(batch_sheet)
    /\ \A k \in DOMAIN runs :
          (\E j \in 1..(k - 1) : runs[j].ok) => runs[k].rows = <<>>

\* a first run uploaded from a CSV that repeats an address in another spelling
\* and names one the sheet already had, and a second run reached its end
C14_Witness ==
    /\ Len(batch.uploaded) = 2
    /\ batch.uploaded[1].ok /\ batch.uploaded[1].rows # <<>>
    /\ batch.uploaded[2].ok
    /\ \E i, j \in DOMAIN CsvRecords :
          /\ i < j
          /\ CsvRecords[i].email # CsvRecords[j].email
          /\ Lower(Strip(CsvRecords[i].email)) = Lower(Strip(CsvRecords[j].email))
    /\ \E i \in DOMAIN CsvRecords :
          Lower(Strip(CsvRecords[i].email)) \in SheetAddresses(SheetBefore)

====
